---- MODULE Spec2Model ----
(***************************************************************************)
(* fastly-purge.py: the bounded-concurrency purge dispatcher               *)
(* (FastlyCachePurge.async_purge / purge_callback / fastly_purge_file and  *)
(* the part of main() that drives them).                                   *)
(*                                                                         *)
(* The program is single threaded: async_purge runs synchronously in       *)
(* main(), then the tornado IOLoop runs one handler at a time.  A handler  *)
(* is either the resumption of a fastly_purge_file coroutine when its      *)
(* HTTP fetch finishes, or purge_callback for a coroutine whose future is  *)
(* done.  Handlers are atomic; their order is the environment's choice.    *)
(***************************************************************************)
EXTENDS Integers, Sequences, FiniteSets

\* ------------------------------------------------------------------ bounds
MaxItems == 3
MaxConcurrency == 3

\* os.EX_OK, the value main() returns
EX_OK == 0

\* the path strings of the change set; two names, so lists of three repeat one
Paths == {"a.js", "b.css"}

RECURSIVE SeqsUpTo(_)
SeqsUpTo(n) ==
    IF n = 0 THEN {<< >>}
    ELSE LET shorter == SeqsUpTo(n - 1)
         IN  shorter \cup {Append(s, p) : s \in {t \in shorter : Len(t) = n - 1}, p \in Paths}

\* what main() hands to async_purge: the file list, --max-concurrency, -v
Args ==
    [files : SeqsUpTo(MaxItems),
     max_concurrency : (-1) .. MaxConcurrency,
     isVerbose : BOOLEAN]

\* how one HTTP fetch can end at the `yield` of fastly_purge_file:
\*   "ok"     the future resolves with a response whose .error is None
\*   "error"  the future resolves with a response whose .error is set
\*   "raised" the future carries an exception, which `yield` re-raises inside
\*            the coroutine (tornado's fetch() sets HTTPError on its future for
\*            a non-2xx response or a transport error)
Outcomes == {"ok", "error", "raised"}

VARIABLES
    args,   \* the arguments of this run
    run,    \* the process: the FastlyCachePurge object, the futures, the IOLoop
    twin    \* the same run with isVerbose negated, driven by the same events

vars == <<args, run, twin>>

\* ------------------------------------------------------------ the process
\* pc: "main" before async_purge, "ioloop" inside IOLoop.start(), "exited".
\* calls: one record per call of fastly_purge_file, in call order:
\*   file, pos (index of the popped element in the input list),
\*   result ("pending" | "ok" | "error" | "raised"), called (purge_callback ran)
Constructed(isVerbose) ==
    [pc |-> "main",
     files |-> << >>,
     max_concurrency |-> 0,
     isVerbose |-> isVerbose,
     current_concurrency |-> 0,
     calls |-> << >>,
     stops |-> 0,
     status |-> EX_OK,
     output |-> << >>]

\* variant: the exit status is recorded but the process keeps running
sys_exit_swallowed(s, code) ==
    [s EXCEPT !.status = code]

\* sys.exit(code): SystemExit is caught nowhere, the process ends
sys_exit(s, code) ==
    [s EXCEPT !.pc = "exited", !.status = code]

\* variant: self.files[-1] instead of self.files.pop()
fastly_purge_file_peek(s) ==
    LET n == Len(s.files)
    IN  [s EXCEPT !.current_concurrency = @ + 1,
                  !.calls = Append(@, [file |-> s.files[n], pos |-> n,
                                       result |-> "pending", called |-> FALSE])]

\* variant: self.files.pop(0), the list is consumed from its front
fastly_purge_file_popfront(s) ==
    [s EXCEPT !.files = Tail(s.files),
              !.current_concurrency = @ + 1,
              !.calls = Append(@, [file |-> s.files[1], pos |-> Len(s.calls) + 1,
                                   result |-> "pending", called |-> FALSE])]

\* variant: line 90 is missing, the counter is never incremented
fastly_purge_file_noinc(s) ==
    LET n == Len(s.files)
    IN  [s EXCEPT !.files = SubSeq(s.files, 1, n - 1),
                  !.calls = Append(@, [file |-> s.files[n], pos |-> n,
                                       result |-> "pending", called |-> FALSE])]

\* fastly_purge_file(self.files.pop()) up to its `yield`: list.pop() removes and
\* returns the last element, the coroutine body runs synchronously to the fetch
fastly_purge_file(s) ==
    LET n == Len(s.files)
    IN  [s EXCEPT !.files = SubSeq(s.files, 1, n - 1),
                  !.current_concurrency = @ + 1,
                  !.calls = Append(@, [file |-> s.files[n], pos |-> n,
                                       result |-> "pending", called |-> FALSE])]

\* variant: one worker per file, the cap is ignored
clamp_none(files, max_concurrency) ==
    Len(files)

\* variant: `>` instead of `<` at line 60
clamp_inverted(files, max_concurrency) ==
    IF Len(files) > max_concurrency THEN Len(files) ELSE max_concurrency

\* lines 60-61: the effective number of workers
clamp(files, max_concurrency) ==
    IF Len(files) < max_concurrency THEN Len(files) ELSE max_concurrency

\* lines 66-68: for i in range(n); an empty range when n <= 0.  Popping an empty
\* list raises IndexError in main(), which ends the process with status 1.
RECURSIVE start_workers(_, _)
start_workers(s, n) ==
    IF n <= 0 THEN s
    ELSE IF Len(s.files) = 0 THEN sys_exit(s, 1)
    ELSE start_workers(fastly_purge_file(s), n - 1)

async_purge(s, files, max_concurrency, isVerbose) ==
    LET s1 == [s EXCEPT !.files = files,
                        !.max_concurrency = clamp(files, max_concurrency),
                        !.isVerbose = isVerbose,
                        !.current_concurrency = 0]
        s2 == start_workers(s1, s1.max_concurrency)
    IN  IF s2.pc = "exited" THEN s2 ELSE [s2 EXCEPT !.pc = "ioloop"]

\* variant: `if not response.error` at line 101
fastly_purge_file_resume_inverted(s, k, outcome) ==
    LET done == [s EXCEPT !.calls[k].result = outcome]
    IN  CASE outcome = "raised" -> done
          [] outcome = "ok"  ->
                sys_exit([done EXCEPT !.output = Append(@, "Error:")], 1)
          [] OTHER ->
                IF s.isVerbose
                THEN [done EXCEPT !.output = Append(@, "Body:")]
                ELSE done

\* variant: in verbose mode the error is printed and the process goes on
fastly_purge_file_resume_verbose(s, k, outcome) ==
    LET done == [s EXCEPT !.calls[k].result = outcome]
    IN  CASE outcome = "raised" -> done
          [] outcome = "error"  ->
                IF s.isVerbose
                THEN [done EXCEPT !.output = Append(@, "Error:")]
                ELSE sys_exit([done EXCEPT !.output = Append(@, "Error:")], 1)
          [] OTHER ->
                IF s.isVerbose
                THEN [done EXCEPT !.output = Append(@, "Body:")]
                ELSE done

\* variant: line 103 is missing, the error is printed and nothing else
fastly_purge_file_resume_noexit(s, k, outcome) ==
    LET done == [s EXCEPT !.calls[k].result = outcome]
    IN  CASE outcome = "raised" -> done
          [] outcome = "error"  -> [done EXCEPT !.output = Append(@, "Error:")]
          [] OTHER ->
                IF s.isVerbose
                THEN [done EXCEPT !.output = Append(@, "Body:")]
                ELSE done

\* lines 99-106: the coroutine of call k resumes with the fetch's outcome
fastly_purge_file_resume(s, k, outcome) ==
    LET done == [s EXCEPT !.calls[k].result = outcome]
    IN  CASE outcome = "raised" -> done
          [] outcome = "error"  ->
                sys_exit([done EXCEPT !.output = Append(@, "Error:")], 1)
          [] OTHER ->
                IF s.isVerbose
                THEN [done EXCEPT !.output = Append(@, "Body:")]
                ELSE done

\* IOLoop.instance().stop()
ioloop_stop(s) ==
    [s EXCEPT !.stops = @ + 1]

\* variant: the callback starts a purge for every file left
purge_callback_refill(s) ==
    LET s1 == [s EXCEPT !.current_concurrency = @ - 1]
    IN  IF Len(s1.files) = 0 /\ s1.current_concurrency = 0
        THEN ioloop_stop(s1)
        ELSE start_workers(s1, Len(s1.files))

\* variant: line 75 is missing, the counter is never decremented
purge_callback_nodec(s) ==
    IF Len(s.files) = 0 /\ s.current_concurrency = 0
    THEN ioloop_stop(s)
    ELSE IF s.current_concurrency < s.max_concurrency /\ Len(s.files) > 0
    THEN fastly_purge_file(s)
    ELSE s

\* variant: `current_concurrency + 1 < max_concurrency` at line 79
purge_callback_strict(s) ==
    LET s1 == [s EXCEPT !.current_concurrency = @ - 1]
    IN  IF Len(s1.files) = 0 /\ s1.current_concurrency = 0
        THEN ioloop_stop(s1)
        ELSE IF s1.current_concurrency + 1 < s1.max_concurrency /\ Len(s1.files) > 0
        THEN fastly_purge_file(s1)
        ELSE s1

\* variant: `or` instead of `and` at line 77
purge_callback_or(s) ==
    LET s1 == [s EXCEPT !.current_concurrency = @ - 1]
    IN  IF Len(s1.files) = 0 \/ s1.current_concurrency = 0
        THEN ioloop_stop(s1)
        ELSE IF s1.current_concurrency < s1.max_concurrency /\ Len(s1.files) > 0
        THEN fastly_purge_file(s1)
        ELSE s1

\* variant: line 77 tests the work list only
purge_callback_filesonly(s) ==
    LET s1 == [s EXCEPT !.current_concurrency = @ - 1]
    IN  IF Len(s1.files) = 0
        THEN ioloop_stop(s1)
        ELSE IF s1.current_concurrency < s1.max_concurrency /\ Len(s1.files) > 0
        THEN fastly_purge_file(s1)
        ELSE s1

\* lines 75-83; the future argument is never inspected
purge_callback(s) ==
    LET s1 == [s EXCEPT !.current_concurrency = @ - 1]
    IN  IF Len(s1.files) = 0 /\ s1.current_concurrency = 0
        THEN ioloop_stop(s1)
        ELSE IF s1.current_concurrency < s1.max_concurrency /\ Len(s1.files) > 0
        THEN fastly_purge_file(s1)
        ELSE s1

\* main() line 136 and line 139: start() has returned, sys.exit(os.EX_OK)
main_return(s) ==
    sys_exit(s, EX_OK)

\* ------------------------------------------------------------- enabling
CanResume(s, k) ==
    /\ s.pc = "ioloop"
    /\ k \in 1 .. Len(s.calls)
    /\ s.calls[k].result = "pending"

CanCallback(s, k) ==
    /\ s.pc = "ioloop"
    /\ k \in 1 .. Len(s.calls)
    /\ s.calls[k].result \in {"ok", "raised"}
    /\ ~ s.calls[k].called

CanReturn(s) ==
    /\ s.pc = "ioloop"
    /\ s.stops > 0

\* --------------------------------------------------------------- actions
Init ==
    /\ args \in Args
    /\ run = Constructed(FALSE)
    /\ twin = Constructed(FALSE)

\* main() lines 132-134
Main ==
    /\ run.pc = "main"
    /\ run' = async_purge(run, args.files, args.max_concurrency, args.isVerbose)
    /\ twin' = async_purge(twin, args.files, args.max_concurrency, ~ args.isVerbose)
    /\ UNCHANGED args

\* the fetch of call k finishes and its coroutine runs to its end
Response(k, outcome) ==
    /\ CanResume(run, k)
    /\ run' = fastly_purge_file_resume(run, k, outcome)
    /\ twin' = IF CanResume(twin, k)
               THEN fastly_purge_file_resume(twin, k, outcome)
               ELSE twin
    /\ UNCHANGED args

\* the IOLoop runs the purge_callback added for the future of call k
Callback(k) ==
    /\ CanCallback(run, k)
    /\ run' = purge_callback([run EXCEPT !.calls[k].called = TRUE])
    /\ twin' = IF CanCallback(twin, k)
               THEN purge_callback([twin EXCEPT !.calls[k].called = TRUE])
               ELSE twin
    /\ UNCHANGED args

\* IOLoop.start() returns after stop(); main() returns os.EX_OK
MainReturn ==
    /\ CanReturn(run)
    /\ run' = main_return(run)
    /\ twin' = IF CanReturn(twin) THEN main_return(twin) ELSE twin
    /\ UNCHANGED args

Next ==
    \/ Main
    \/ \E k \in 1 .. MaxItems, outcome \in Outcomes : Response(k, outcome)
    \/ \E k \in 1 .. MaxItems : Callback(k)
    \/ MainReturn

Spec == Init /\ [][Next]_vars

\* every fetch ends, the IOLoop runs every callback added to it, main() goes on
FairSpec ==
    /\ Spec
    /\ WF_vars(Main)
    /\ \A k \in 1 .. MaxItems : WF_vars(\E outcome \in Outcomes : Response(k, outcome))
    /\ \A k \in 1 .. MaxItems : WF_vars(Callback(k))
    /\ WF_vars(MainReturn)

\* ------------------------------------------------- vocabulary of the claims
N == Len(args.files)
C == args.max_concurrency
Min(a, b) == IF a < b THEN a ELSE b

Calls(s) == 1 .. Len(s.calls)
\* purge calls issued whose HTTP fetch has not finished
InFlight(s) == Cardinality({k \in Calls(s) : s.calls[k].result = "pending"})
\* purge calls issued whose purge_callback has not run
Outstanding(s) == Cardinality({k \in Calls(s) : ~ s.calls[k].called})
CallbacksRun(s) == Cardinality({k \in Calls(s) : s.calls[k].called})
Succeeded(s) == Cardinality({k \in Calls(s) : s.calls[k].result = "ok"})
\* a purge call ended in failure, whichever way the fetch reported it
AnyFailed(s) == \E k \in Calls(s) : s.calls[k].result \in {"error", "raised"}
\* the failure was seen by line 101 of fastly_purge_file
Latched(s) == \E k \in Calls(s) : s.calls[k].result = "error"
ExitedWith(s, code) == s.pc = "exited" /\ s.status = code
ExitedNonZero(s) == s.pc = "exited" /\ s.status # EX_OK

\* C1: for C >= 1, when async_purge has returned and no completion callback
\* has run yet, exactly min(N, C) purge calls have been started (N when C > N).
C1_StartsMinWorkers ==
    (run.pc # "main" /\ C >= 1 /\ CallbacksRun(run) = 0)
        => Len(run.calls) = Min(N, C)

C1_Witness ==
    /\ run.pc = "ioloop"
    /\ N >= 1
    /\ C > N
    /\ CallbacksRun(run) = 0
    /\ Len(run.calls) = N

\* C2: no position of the input list is handed to fastly_purge_file twice, every
\* call gets the path at its position, and a run that ends with no failed purge
\* call has handed every position 1..N to exactly one call (so a path that
\* occurs k times gets k calls).
C2_EachItemOnce ==
    /\ \A j, k \in Calls(run) : j # k => run.calls[j].pos # run.calls[k].pos
    /\ \A k \in Calls(run) :
          /\ run.calls[k].pos \in 1 .. N
          /\ run.calls[k].file = args.files[run.calls[k].pos]
    /\ (ExitedWith(run, EX_OK) /\ ~ AnyFailed(run))
          => \A p \in 1 .. N :
                Cardinality({k \in Calls(run) : run.calls[k].pos = p}) = 1

C2_Witness ==
    /\ ExitedWith(run, EX_OK)
    /\ ~ AnyFailed(run)
    /\ N = 3
    /\ C = 2
    /\ args.files[1] = args.files[3]
    /\ Len(run.calls) = 3

\* C3: for C >= 1 the number of purge calls issued and not yet completed (their
\* callback has not run; a fortiori their fetch has not finished) never exceeds
\* min(N, C), and the worker count kept in max_concurrency is min(N, C) from
\* the return of async_purge on.
C3_BoundedInFlight ==
    (run.pc # "main" /\ C >= 1)
        => /\ run.max_concurrency = Min(N, C)
           /\ InFlight(run) <= Min(N, C)
           /\ Outstanding(run) <= Min(N, C)

C3_Witness ==
    /\ run.pc = "ioloop"
    /\ C >= 2
    /\ N > C
    /\ CallbacksRun(run) >= 1
    /\ InFlight(run) = C

\* C4: a run in which some purge call failed never ends with status 0.
C4_FailureEndsNonZero ==
    (run.pc = "exited" /\ AnyFailed(run)) => run.status # EX_OK

\* C5: once a failure has been latched, no step removes an item from the work
\* list or issues a purge call.
C5_NoTakeAfterLatch ==
    [][Latched(run) => (run'.files = run.files /\ run'.calls = run.calls)]_vars

C5_Witness ==
    /\ Latched(run)
    /\ ExitedNonZero(run)
    /\ Len(run.files) > 0
    /\ InFlight(run) >= 1

\* C6: with an empty list and C >= 1 no purge call is issued and the run
\* terminates with status 0: once async_purge has returned, the process has
\* either exited with 0 or still has a step to take towards it.
C6_EmptyListSucceeds ==
    (N = 0 /\ C >= 1 /\ run.pc # "main")
        => /\ Len(run.calls) = 0
           /\ (ExitedWith(run, EX_OK) \/ ENABLED Next)

\* C7: with N >= 1 and C >= 1, a run in which no purge call ever fails reaches
\* the state where the loop was stopped, the status is 0 and exactly N purge
\* calls were issued.
C7_Done ==
    /\ ExitedWith(run, EX_OK)
    /\ run.stops >= 1
    /\ Len(run.calls) = N

C7_SuccessTerminates ==
    (N >= 1 /\ C >= 1) => ([](~ AnyFailed(run)) => <>C7_Done)

C7_Witness ==
    /\ C7_Done
    /\ N = 3
    /\ C = 2
    /\ Succeeded(run) = 3

\* C8: in a terminal state with status 0 the number of purge calls that
\* completed with success equals N.
C8_SuccessMeansAllPurged ==
    ExitedWith(run, EX_OK) => Succeeded(run) = N

\* C9: the run ends non-zero only if some purge call completed with failure.
C9_NonZeroNeedsFailure ==
    ExitedNonZero(run) => AnyFailed(run)

C9_Witness ==
    /\ ExitedNonZero(run)
    /\ Latched(run)
    /\ Succeeded(run) >= 1

\* C10: the run and its twin, which differ in isVerbose only and see the same
\* outcomes in the same order, agree on the purge calls issued, the work list,
\* the counter, the loop and the exit status at every step.
Control(s) ==
    [pc |-> s.pc, files |-> s.files, max_concurrency |-> s.max_concurrency,
     current_concurrency |-> s.current_concurrency, calls |-> s.calls,
     stops |-> s.stops, status |-> s.status]

C10_VerboseNoControl ==
    /\ Control(run) = Control(twin)
    /\ run.pc # "main" => run.isVerbose # twin.isVerbose

C10_Witness ==
    /\ run.pc = "exited"
    /\ run.output # twin.output
    /\ Len(run.calls) >= 2
    /\ Control(run) = Control(twin)

\* C11: for C >= 1, in a run with no failed purge call, whenever the work list
\* is non-empty after async_purge or after a handler has returned, the purge
\* calls in flight (issued, completion callback not yet run) number exactly
\* min(N, C); a purge_callback that finds the work list non-empty starts a
\* purge, and one that neither stops the loop nor starts a purge found the
\* work list empty and leaves at least one call in flight.
C11_Quiescent ==
    (run.pc # "main" /\ C >= 1 /\ ~ AnyFailed(run) /\ Len(run.files) > 0)
        => Outstanding(run) = Min(N, C)

C11_CallbackStep ==
    (C >= 1 /\ CallbacksRun(run') > CallbacksRun(run))
        => /\ Len(run.files) > 0 => Len(run'.calls) = Len(run.calls) + 1
           /\ (run'.stops = run.stops /\ Len(run'.calls) = Len(run.calls))
                 => (Len(run.files) = 0 /\ Outstanding(run') >= 1)

C11_FullUtilisation ==
    []C11_Quiescent /\ [][C11_CallbackStep]_vars

C11_Witness ==
    /\ run.pc = "ioloop"
    /\ ~ AnyFailed(run)
    /\ N = 3
    /\ C = 2
    /\ CallbacksRun(run) = 1
    /\ Len(run.files) = 0
    /\ Len(run.calls) = 3
    /\ Outstanding(run) = 2

\* C12: the loop is stopped only with the work list empty and no purge call in
\* flight: whenever stop() has been called, the list is empty, every issued
\* call has had its fetch finish and its callback run.
C12_NoPrematureStop ==
    run.stops >= 1
        => /\ Len(run.files) = 0
           /\ InFlight(run) = 0
           /\ Outstanding(run) = 0

C12_Witness ==
    /\ run.pc = "ioloop"
    /\ run.stops = 1
    /\ N = 3
    /\ C = 1
    /\ CallbacksRun(run) = 3

\* C13: after async_purge, the items removed from the work list are exactly
\* the items handed to a purge call, and items remaining plus purge calls
\* attempted is N: the list is the prefix of the input that is left and the
\* calls hold the positions behind it.
C13_QueueAccounting ==
    run.pc # "main"
        => /\ Len(run.files) + Len(run.calls) = N
           /\ run.files = SubSeq(args.files, 1, Len(run.files))
           /\ {run.calls[k].pos : k \in Calls(run)} = (Len(run.files) + 1) .. N

C13_Witness ==
    /\ run.pc = "ioloop"
    /\ N = 3
    /\ Len(run.files) = 1
    /\ Len(run.calls) = 2
    /\ CallbacksRun(run) = 1

\* C14: the step in which the first failure is observed is the step that ends
\* the run with a non-zero status; it changes nothing about the other purge
\* calls or the work list, whatever is in flight or left to do.
C14_Untouched(k) ==
    /\ run'.calls[k].called = run.calls[k].called
    /\ (run'.calls[k].result = "error" \/ run'.calls[k].result = run.calls[k].result)

C14_FailFast ==
    [][(~ Latched(run) /\ Latched(run'))
          => /\ ExitedNonZero(run')
             /\ run'.files = run.files
             /\ Len(run'.calls) = Len(run.calls)
             /\ \A k \in Calls(run) : C14_Untouched(k)]_vars

C14_Witness ==
    /\ Latched(run)
    /\ ExitedNonZero(run)
    /\ N = 3
    /\ C = 2
    /\ Len(run.files) = 1
    /\ InFlight(run) = 1
    /\ CallbacksRun(run) = 0

\* C15: from a state in which a failure has been observed, every step leaves
\* the run exited with the same non-zero status.
C15_FailureLatched ==
    [][Latched(run) => (ExitedNonZero(run') /\ run'.status = run.status)]_vars

C15_Witness ==
    /\ Latched(run)
    /\ ExitedNonZero(run)
    /\ Len(run.files) = 0
    /\ InFlight(run) = 1
    /\ Outstanding(run) = 2

\* C16: stop() is called at most once; a run that ends with status 0 has called
\* it exactly once, and the callback that called it was the last one to run.
C16_StopOnce ==
    /\ run.stops <= 1
    /\ ExitedWith(run, EX_OK) => run.stops = 1
    /\ run.stops = 1 => (Len(run.calls) >= 1 /\ CallbacksRun(run) = Len(run.calls))

C16_Witness ==
    /\ ExitedWith(run, EX_OK)
    /\ ~ AnyFailed(run)
    /\ run.stops = 1
    /\ N = 3
    /\ C = 3

\* C17: the k-th purge call issued is for the k-th item from the end of the
\* input list.
C17_Lifo ==
    \A k \in Calls(run) :
        /\ run.calls[k].pos = N - k + 1
        /\ run.calls[k].file = args.files[N - k + 1]

C17_Witness ==
    /\ N = 3
    /\ C = 2
    /\ args.files[1] # args.files[3]
    /\ Len(run.calls) = 3
    /\ run.calls[2].called
    /\ ~ run.calls[1].called

\* C18: with C <= 0 and a non-empty list, async_purge issues no purge call and
\* leaves the work list whole, and the process stays in the IOLoop for ever:
\* no callback runs and stop() is never called.
C18_NoWorkers ==
    (C <= 0 /\ N >= 1 /\ run.pc # "main")
        => /\ Len(run.calls) = 0
           /\ run.files = args.files
           /\ run.stops = 0
           /\ run.pc = "ioloop"
           /\ ~ ENABLED Next

C18_Witness ==
    /\ C = -1
    /\ N = 3
    /\ run.pc = "ioloop"
    /\ run.files = args.files

\* C19, as stated: after async_purge the counter equals the purge calls issued
\* minus the callbacks run, and 0 <= current_concurrency <= max_concurrency.
C19_Exact ==
    run.current_concurrency = Len(run.calls) - CallbacksRun(run)

C19_CounterBounded ==
    run.pc # "main"
        => /\ C19_Exact
           /\ 0 <= run.current_concurrency
           /\ run.current_concurrency <= run.max_concurrency

\* C19, amended: the counter is exact and never negative in every reachable
\* state, and it is at most max_concurrency whenever the cap given is >= 0.
C19_CounterExact ==
    run.pc # "main"
        => /\ C19_Exact
           /\ 0 <= run.current_concurrency
           /\ C >= 0 => run.current_concurrency <= run.max_concurrency

C19_Witness ==
    /\ run.pc = "ioloop"
    /\ N = 3
    /\ C = 2
    /\ CallbacksRun(run) = 2
    /\ run.current_concurrency = 1

====
